---- MODULE Spec2Model ----
(***************************************************************************)
(* Association rule mining via FP-Growth (nokia/arm-go).                   *)
(*                                                                         *)
(* Two programs live in the repository: the command line program with the  *)
(* master/worker parallel miner (src/unnamed/part_001) and the importable  *)
(* package whose entry point is MineAssociationRules (src/arm.go) with     *)
(* Arguments.Validate (src/unnamed/part_000).  The FP-tree, the interner   *)
(* and appendSorted are used by both but their source is not part of the   *)
(* files at hand; they are modelled from the written specification.        *)
(***************************************************************************)
EXTENDS Integers, Sequences, FiniteSets, Bags, TLC

(***************************************************************************)
(* Bounds of the model.                                                    *)
(***************************************************************************)
NumItems == 3
MaxTrans == 4
MaxTxLen == 3
MaxRepeatTrans == 2
MaxWorkers == 2
SupportSteps == 2
MaxCap == 1
MaxCapTrans == 2
MaxRunTrans == 2
MaxRuleTrans == 3
MaxRuleTxLen == 4

Items == 1..NumItems

Null == [null |-> TRUE]

(***************************************************************************)
(* Generic helpers on sequences.                                           *)
(***************************************************************************)
Range(s) == {s[k] : k \in DOMAIN s}

Last(s) == s[Len(s)]

Occurrences(s, x) == Cardinality({k \in DOMAIN s : s[k] = x})

\* The sequences that list every element of the finite set S exactly once.
Perms(S) ==
    {s \in [1..Cardinality(S) -> S] : \A x \in S : \E k \in DOMAIN s : s[k] = x}

max(a, b) == IF a > b THEN a ELSE b

(***************************************************************************)
(* Interner order.  Items are dense ids; cmp is a strict total order.      *)
(***************************************************************************)
cmp(a, b) == a < b

(***************************************************************************)
(* appendSorted: prefix (+) item, re-sorted by cmp.  The item goes after   *)
(* every element that is not greater than it.                              *)
(***************************************************************************)
appendSorted(itemset, item) ==
    LET k == Cardinality({j \in DOMAIN itemset : ~cmp(item, itemset[j])})
    IN  SubSeq(itemset, 1, k) \o <<item>> \o SubSeq(itemset, k + 1, Len(itemset))

(***************************************************************************)
(* FP-tree.  A node is identified by the path of items from the root to    *)
(* it; nodes maps each node to its count, root is the root's count and     *)
(* counts is the per-item counter of the tree.                             *)
(***************************************************************************)
newTree == [root |-> 0, nodes |-> [p \in {} |-> 0], counts |-> [i \in Items |-> 0]]

Insert(tree, transaction, count) ==
    LET pre == {SubSeq(transaction, 1, k) : k \in 1..Len(transaction)}
        old == DOMAIN tree.nodes
    IN  [root   |-> tree.root + count,
         nodes  |-> [p \in old \cup pre |->
                        (IF p \in old THEN tree.nodes[p] ELSE 0)
                      + (IF p \in pre THEN count ELSE 0)],
         counts |-> [i \in Items |->
                        tree.counts[i] + count * Occurrences(transaction, i)]]

\* The header table: for each item that occurs in the tree, its nodes.
itemList(tree) ==
    [i \in {Last(p) : p \in DOMAIN tree.nodes} |->
        {p \in DOMAIN tree.nodes : Last(p) = i}]

RECURSIVE InsertPaths(_, _, _)
InsertPaths(acc, tree, list) ==
    IF list = {} THEN acc
    ELSE LET n == CHOOSE p \in list : TRUE
         IN  InsertPaths(Insert(acc, SubSeq(n, 1, Len(n) - 1), tree.nodes[n]),
                         tree, list \ {n})

makeConditionalTree(tree, list) == InsertPaths(newTree, tree, list)


(***************************************************************************)
(* Input.  A transaction is a line of the input: a sequence of items, an   *)
(* empty line being the empty transaction.  An item may repeat within a    *)
(* line.  Lines are listed with their items in id order and the input with *)
(* its lines in a fixed order: neither order changes what the passes       *)
(* compute, since pass 2 sorts each line and the tree is a prefix tree.    *)
(* Inputs have at most MaxTrans lines; those in which a line repeats an    *)
(* item have at most MaxRepeatTrans lines.                                 *)
(***************************************************************************)
IsNonDecreasing(s) == \A k \in 1..(Len(s) - 1) : s[k] <= s[k + 1]

Transactions ==
    {t \in UNION {[1..n -> Items] : n \in 0..MaxTxLen} : IsNonDecreasing(t)}

\* A number that orders the lines of Transactions.
RECURSIVE LineCode(_)
LineCode(t) ==
    IF t = <<>> THEN 0 ELSE t[1] + (NumItems + 1) * LineCode(Tail(t))

NoRepeat(lines) ==
    \A k \in DOMAIN lines : \A i \in Items : Occurrences(lines[k], i) <= 1

Inputs ==
    {in \in UNION {[1..n -> Transactions] : n \in 0..MaxTrans} :
        /\ \A k \in 1..(Len(in) - 1) : LineCode(in[k]) <= LineCode(in[k + 1])
        /\ NoRepeat(in) \/ Len(in) <= MaxRepeatTrans}

\* minSupport is k / SupportSteps, a value of [0,1].
MinSupports == 0..SupportSteps

(***************************************************************************)
(* Pass 1: countItems.  forEachItem calls the function once per token.     *)
(***************************************************************************)
RECURSIVE countFrequency(_)
countFrequency(lines) ==
    IF lines = <<>> THEN [i \in Items |-> 0]
    ELSE LET rest == countFrequency(Tail(lines))
         IN  [i \in Items |-> rest[i] + Occurrences(Head(lines), i)]

countItems(lines) ==
    [frequency |-> countFrequency(lines), numTransactions |-> Len(lines)]

(***************************************************************************)
(* Pass 2: generateFrequentItemsets up to the call of the miner.           *)
(***************************************************************************)
\* max(1, ceil(minSupport * numTransactions)) for minSupport = k/SupportSteps
computeMinCount(k, numTransactions) ==
    max(1, (k * numTransactions + SupportSteps - 1) \div SupportSteps)

filter(tokens, frequency, minCount) ==
    SelectSeq(tokens, LAMBDA i : frequency[i] >= minCount)

\* the less function handed to sort.SliceStable
less(a, b, frequency) ==
    IF frequency[a] = frequency[b] THEN cmp(a, b) ELSE frequency[a] > frequency[b]

\* stable insertion of x into the sorted sequence s: after every element
\* that x is not less than
InsertSorted(s, x, frequency) ==
    LET k == Cardinality({j \in DOMAIN s : ~less(x, s[j], frequency)})
    IN  SubSeq(s, 1, k) \o <<x>> \o SubSeq(s, k + 1, Len(s))

RECURSIVE SliceStable(_, _)
SliceStable(s, frequency) ==
    IF s = <<>> THEN <<>>
    ELSE InsertSorted(SliceStable(SubSeq(s, 1, Len(s) - 1), frequency),
                      Last(s), frequency)

RECURSIVE buildTree(_, _, _)
buildTree(lines, frequency, minCount) ==
    IF lines = <<>> THEN newTree
    ELSE LET t    == buildTree(SubSeq(lines, 1, Len(lines) - 1), frequency, minCount)
             line == filter(Last(lines), frequency, minCount)
         IN  IF Len(line) = 0 THEN t
             ELSE Insert(t, SliceStable(line, frequency), 1)

(***************************************************************************)
(* frequentItemsInTree ranges over a map, so the order of the list it      *)
(* returns is not fixed: the operator is the set of lists it may return.   *)
(***************************************************************************)
\* as frequentItemsInTree, the threshold left out
frequentItemsInTree_NoThreshold(tree, minCount) == Perms(DOMAIN itemList(tree))

frequentItemsInTree(tree, minCount) ==
    Perms({item \in DOMAIN itemList(tree) : tree.counts[item] > minCount})


(***************************************************************************)
(* fpGrowth, the sequential miner the package calls: for each item of the  *)
(* tree that passes the threshold, the itemset prefix (+) item with the    *)
(* sum of the counts of the item's nodes, then the same on the conditional *)
(* tree.  The list it returns is kept as a bag.                            *)
(***************************************************************************)
RECURSIVE SumCounts(_, _)
SumCounts(tree, list) ==
    IF list = {} THEN 0
    ELSE LET n == CHOOSE p \in list : TRUE
         IN  tree.nodes[n] + SumCounts(tree, list \ {n})

RECURSIVE fpGrowthItems(_, _, _, _)
fpGrowthItems(tree, itemset, mc, todo) ==
    IF todo = {} THEN EmptyBag
    ELSE LET item == CHOOSE i \in todo : TRUE
             list == itemList(tree)[item]
             next == appendSorted(itemset, item)
         IN  SetToBag({[itemset |-> next, count |-> SumCounts(tree, list)]})
             (+) fpGrowthItems(makeConditionalTree(tree, list), next, mc,
                     {i \in DOMAIN itemList(makeConditionalTree(tree, list)) :
                         makeConditionalTree(tree, list).counts[i] > mc})
             (+) fpGrowthItems(tree, itemset, mc, todo \ {item})

fpGrowth(tree, itemset, mc) ==
    fpGrowthItems(tree, itemset, mc,
                  {i \in DOMAIN itemList(tree) : tree.counts[i] > mc})

(***************************************************************************)
(* State of the parallel miner (command line program).                     *)
(***************************************************************************)
VARIABLES
    input,            \* the lines of the input file
    frequency,        \* main: the item counts pass 1 returned
    numTransactions,  \* main: the number of lines pass 1 returned
    minSupport,       \* numerator of the support threshold
    numWorkers,       \* number of worker goroutines
    capToWorker,      \* capacity of the channel wc (master -> workers)
    capFromWorker,    \* capacity of the channel mc (workers -> master)
    pc,               \* main goroutine: "start", "mining", "closed", "returned"
    tree,             \* the initial tree
    minCount,
    masterPc,         \* "idle", "init", "loop", "done", "panic"
    tasks,            \* master: stack of masterTask, top last
    outstandingJobs,  \* master
    toWorker,         \* content of wc
    toWorkerClosed,
    fromWorker,       \* content of mc
    wpc,              \* worker: "receive", "output", "toMaster", "exited"
    wtask,            \* worker: the workerTask it holds
    itemsets,         \* collector: what it has received on output, as a bag
    outputClosed,
    result,           \* what parallelFpGrowth returned
    sent,             \* history: the workerTasks the master has sent, as a bag
                      \* of (itemset, item); the itemset names the tree
    pushed            \* history: the items of the masterTasks put on the
                      \* stack, as a bag of (itemset, item)

mvars == <<input, frequency, numTransactions, minSupport, numWorkers,
           capToWorker, capFromWorker, pc, tree,
           minCount, masterPc, tasks, outstandingJobs, toWorker, toWorkerClosed,
           fromWorker, wpc, wtask, itemsets, outputClosed, result, sent, pushed>>

(***************************************************************************)
(* State of a call of MineAssociationRules (package).                      *)
(***************************************************************************)
VARIABLES
    args,             \* the Arguments of the call
    rinput,           \* the lines of the file args.Input
    rpc,              \* where the call is: "entry", "countItems", "generate",
                      \* "writeItemsets", "rules", "writeRules", "returned"
    ret,              \* what the call returned: "none" until it returns
    io,               \* the files opened or created so far, in order
    counted,          \* what countItems returned
    itemsWithCount,   \* what generateFrequentItemsets returned
    rules,            \* what generateRules returned
    files,            \* the output files: "absent", "partial" or "complete"
    readErr,          \* the pass over the input that failed, and its error
    writeErr          \* the first error writeItemsets or writeRules ended with

rvars == <<args, rinput, rpc, ret, io, counted, itemsWithCount, rules, files,
           readErr, writeErr>>

vars == <<mvars, rvars>>

\* capacity of mc and wc in parallelFpGrowth
ChanCap == 10000

Workers == 1..numWorkers

Running == masterPc # "panic"

Nil == "nil"

\* before main has read its arguments and the input, and before the call of
\* MineAssociationRules
Init ==
    /\ args = Null
    /\ rinput = <<>>
    /\ rpc = "entry"
    /\ ret = "none"
    /\ io = <<>>
    /\ counted = Null
    /\ itemsWithCount = Null
    /\ rules = Null
    /\ files = [itemsets |-> "absent", rules |-> "absent"]
    /\ readErr = [pass |-> 0, err |-> Nil]
    /\ writeErr = Nil
    /\ input = <<>>
    /\ frequency = [i \in Items |-> 0]
    /\ numTransactions = 0
    /\ minSupport = 0
    /\ numWorkers = 0
    /\ capToWorker = 0
    /\ capFromWorker = 0
    /\ pc = "start"
    /\ tree = newTree
    /\ minCount = 0
    /\ masterPc = "idle"
    /\ tasks = <<>>
    /\ outstandingJobs = 0
    /\ toWorker = <<>>
    /\ toWorkerClosed = FALSE
    /\ fromWorker = <<>>
    /\ wpc = [w \in 1..MaxWorkers |-> "idle"]
    /\ wtask = [w \in 1..MaxWorkers |-> Null]
    /\ itemsets = EmptyBag
    /\ outputClosed = FALSE
    /\ result = Null
    /\ sent = EmptyBag
    /\ pushed = EmptyBag

(***************************************************************************)
(* main: both passes over the input, then parallelFpGrowth starts the      *)
(* collector and the workers and calls master.  The input file, the        *)
(* support threshold, the number of workers and the capacity of the two    *)
(* channels are the inputs of the step.                                    *)
(***************************************************************************)
main(lines, support, workers, capTo, capFrom) ==
    /\ pc = "start"
    /\ input' = lines
    /\ minSupport' = support
    /\ numWorkers' = workers
    /\ capToWorker' = capTo
    /\ capFromWorker' = capFrom
    /\ LET c  == countItems(lines)
           mc == computeMinCount(support, c.numTransactions)
       IN  /\ frequency' = c.frequency
           /\ numTransactions' = c.numTransactions
           /\ minCount' = mc
           /\ tree' = buildTree(lines, c.frequency, mc)
    /\ pc' = "mining"
    /\ masterPc' = "init"
    /\ wpc' = [w \in 1..MaxWorkers |-> IF w <= workers THEN "receive" ELSE "idle"]
    /\ UNCHANGED rvars
    /\ UNCHANGED <<sent, pushed>>
    /\ UNCHANGED <<tasks, outstandingJobs, toWorker, toWorkerClosed, fromWorker,
                   wtask, itemsets, outputClosed, result>>

\* the program as written: channels of capacity ChanCap
Start ==
    /\ pc = "start"
    /\ \E lines \in Inputs, support \in MinSupports, workers \in 1..MaxWorkers :
          main(lines, support, workers, ChanCap, ChanCap)

(***************************************************************************)
(* master                                                                  *)
(***************************************************************************)
masterTask(t, itemset, items) == [tree |-> t, itemset |-> itemset, items |-> items]

workerTask(t, item, itemset) == [tree |-> t, item |-> item, itemset |-> itemset]

\* history: a workerTask as (itemset, item), its tree being the one made
\* for the itemset
taskKey(task) == [itemset |-> task.itemset, item |-> task.item]

\* history: the items of a masterTask as a bag of (itemset, item)
RECURSIVE taskItems(_, _)
taskItems(itemset, items) ==
    IF items = <<>> THEN EmptyBag
    ELSE SetToBag({[itemset |-> itemset, item |-> Head(items)]})
         (+) taskItems(itemset, Tail(items))

MasterInit ==
    /\ masterPc = "init"
    /\ \E items \in frequentItemsInTree(tree, minCount) :
          /\ tasks' = <<masterTask(tree, <<>>, items)>>
          /\ pushed' = taskItems(<<>>, items)
    /\ sent' = sent
    /\ outstandingJobs' = 0
    /\ masterPc' = "loop"
    /\ UNCHANGED rvars
    /\ UNCHANGED <<input, frequency, numTransactions, minSupport, numWorkers,
                   capToWorker, capFromWorker, pc,
                   tree, minCount, toWorker, toWorkerClosed, fromWorker, wpc,
                   wtask, itemsets, outputClosed, result>>

lastTask == tasks[Len(tasks)]

\* lastTask.items[0] of an empty list: index out of range
MasterPanic ==
    /\ masterPc = "loop"
    /\ Len(tasks) > 0
    /\ Len(lastTask.items) = 0
    /\ masterPc' = "panic"
    /\ UNCHANGED rvars
    /\ UNCHANGED <<sent, pushed>>
    /\ UNCHANGED <<input, frequency, numTransactions, minSupport, numWorkers,
                   capToWorker, capFromWorker, pc,
                   tree, minCount, tasks, outstandingJobs, toWorker,
                   toWorkerClosed, fromWorker, wpc, wtask, itemsets,
                   outputClosed, result>>

nextWorkerTask == workerTask(lastTask.tree, lastTask.items[1], lastTask.itemset)

\* the master is at the select, or at the receive of the else branch
MasterAtSelect == masterPc = "loop" /\ Len(tasks) > 0 /\ Len(lastTask.items) > 0

MasterAtReceive == masterPc = "loop" /\ Len(tasks) = 0 /\ outstandingJobs > 0

\* as MasterCanReceive, the select offering the send alone
MasterCanReceive_IdleOnly == MasterAtReceive

\* fromWorker is a case of the select and the only operation of the else branch
MasterCanReceive == MasterAtSelect \/ MasterAtReceive

\* as pushTask, the task put under the stack
pushTask_Front(stack, task) == IF Len(task.items) > 0 THEN <<task>> \o stack ELSE stack

\* the task stack after the received task was handled
pushTask(stack, task) == IF Len(task.items) > 0 THEN Append(stack, task) ELSE stack

\* as popItem, the top task popped whatever items it has left
popItem_DropsTask(stack) == SubSeq(stack, 1, Len(stack) - 1)

\* as popItem, the item sent left in its list
popItem_SendsAgain(stack) ==
    LET top == stack[Len(stack)]
    IN  IF Len(top.items) = 1 THEN SubSeq(stack, 1, Len(stack) - 1) ELSE stack

\* the task stack after the first item of the top task was sent
popItem(stack) ==
    LET top == stack[Len(stack)]
    IN  IF Len(top.items) = 1 THEN SubSeq(stack, 1, Len(stack) - 1)
        ELSE [stack EXCEPT ![Len(stack)].items = Tail(top.items)]

MasterSend ==
    /\ MasterAtSelect
    /\ Len(toWorker) < capToWorker
    /\ toWorker' = Append(toWorker, nextWorkerTask)
    /\ outstandingJobs' = outstandingJobs + 1
    /\ tasks' = popItem(tasks)
    /\ sent' = sent (+) SetToBag({taskKey(nextWorkerTask)})
    /\ pushed' = pushed
    /\ UNCHANGED rvars
    /\ UNCHANGED <<input, frequency, numTransactions, minSupport, numWorkers,
                   capToWorker, capFromWorker, pc,
                   tree, minCount, masterPc, toWorkerClosed, fromWorker, wpc,
                   wtask, itemsets, outputClosed, result>>

\* as MasterReceive, outstandingJobs left as it is
MasterReceive_NoDecrement ==
    /\ MasterCanReceive
    /\ Len(fromWorker) > 0
    /\ tasks' = pushTask(tasks, Head(fromWorker))
    /\ fromWorker' = Tail(fromWorker)
    /\ outstandingJobs' = outstandingJobs
    /\ pushed' = pushed (+) taskItems(Head(fromWorker).itemset, Head(fromWorker).items)
    /\ sent' = sent
    /\ UNCHANGED rvars
    /\ UNCHANGED <<input, frequency, numTransactions, minSupport, numWorkers,
                   capToWorker, capFromWorker, pc,
                   tree, minCount, masterPc, toWorker, toWorkerClosed, wpc,
                   wtask, itemsets, outputClosed, result>>

MasterReceive ==
    /\ MasterCanReceive
    /\ Len(fromWorker) > 0
    /\ tasks' = pushTask(tasks, Head(fromWorker))
    /\ fromWorker' = Tail(fromWorker)
    /\ outstandingJobs' = outstandingJobs - 1
    /\ pushed' = pushed (+) taskItems(Head(fromWorker).itemset, Head(fromWorker).items)
    /\ sent' = sent
    /\ UNCHANGED rvars
    /\ UNCHANGED <<input, frequency, numTransactions, minSupport, numWorkers,
                   capToWorker, capFromWorker, pc,
                   tree, minCount, masterPc, toWorker, toWorkerClosed, wpc,
                   wtask, itemsets, outputClosed, result>>

MasterClose ==
    /\ masterPc = "loop"
    /\ Len(tasks) = 0
    /\ outstandingJobs <= 0
    /\ toWorkerClosed' = TRUE
    /\ masterPc' = "done"
    /\ UNCHANGED rvars
    /\ UNCHANGED <<sent, pushed>>
    /\ UNCHANGED <<input, frequency, numTransactions, minSupport, numWorkers,
                   capToWorker, capFromWorker, pc,
                   tree, minCount, tasks, outstandingJobs, toWorker, fromWorker,
                   wpc, wtask, itemsets, outputClosed, result>>

(***************************************************************************)
(* worker                                                                  *)
(***************************************************************************)
conditionalTree(task) == makeConditionalTree(task.tree, itemList(task.tree)[task.item])

\* as emitted, the count read from the root of the task's tree
emitted_TreeRoot(task) ==
    [itemset |-> appendSorted(task.itemset, task.item), count |-> task.tree.root]

\* what the worker sends on output for the task it holds
emitted(task) ==
    [itemset |-> appendSorted(task.itemset, task.item),
     count   |-> conditionalTree(task).root]

\* the masterTasks the worker may send back for the task it holds
replies(task, mc) ==
    {masterTask(conditionalTree(task), appendSorted(task.itemset, task.item), items) :
        items \in frequentItemsInTree(conditionalTree(task), mc)}

\* as WorkerReceive, the worker going on to its reply to the master
WorkerReceive_ReplyFirst(w) ==
    /\ Running
    /\ wpc[w] = "receive"
    /\ Len(toWorker) > 0
    /\ wtask' = [wtask EXCEPT ![w] = Head(toWorker)]
    /\ toWorker' = Tail(toWorker)
    /\ wpc' = [wpc EXCEPT ![w] = "toMaster"]
    /\ UNCHANGED rvars
    /\ UNCHANGED <<sent, pushed>>
    /\ UNCHANGED <<input, frequency, numTransactions, minSupport, numWorkers,
                   capToWorker, capFromWorker, pc,
                   tree, minCount, masterPc, tasks, outstandingJobs,
                   toWorkerClosed, fromWorker, itemsets, outputClosed, result>>

WorkerReceive(w) ==
    /\ Running
    /\ wpc[w] = "receive"
    /\ Len(toWorker) > 0
    /\ wtask' = [wtask EXCEPT ![w] = Head(toWorker)]
    /\ toWorker' = Tail(toWorker)
    /\ wpc' = [wpc EXCEPT ![w] = "output"]
    /\ UNCHANGED rvars
    /\ UNCHANGED <<sent, pushed>>
    /\ UNCHANGED <<input, frequency, numTransactions, minSupport, numWorkers,
                   capToWorker, capFromWorker, pc,
                   tree, minCount, masterPc, tasks, outstandingJobs,
                   toWorkerClosed, fromWorker, itemsets, outputClosed, result>>

WorkerExit(w) ==
    /\ Running
    /\ wpc[w] = "receive"
    /\ Len(toWorker) = 0
    /\ toWorkerClosed
    /\ wpc' = [wpc EXCEPT ![w] = "exited"]
    /\ UNCHANGED rvars
    /\ UNCHANGED <<sent, pushed>>
    /\ UNCHANGED <<input, frequency, numTransactions, minSupport, numWorkers,
                   capToWorker, capFromWorker, pc,
                   tree, minCount, masterPc, tasks, outstandingJobs, toWorker,
                   toWorkerClosed, fromWorker, wtask, itemsets, outputClosed,
                   result>>

\* output is unbuffered: the send completes when the collector receives.
\* The collector appends to a list; the model keeps the list's content as a
\* bag, the order of the list being read nowhere.
WorkerOutput(w) ==
    /\ Running
    /\ wpc[w] = "output"
    /\ ~outputClosed
    /\ itemsets' = itemsets (+) SetToBag({emitted(wtask[w])})
    /\ wpc' = [wpc EXCEPT ![w] = "toMaster"]
    /\ UNCHANGED rvars
    /\ UNCHANGED <<sent, pushed>>
    /\ UNCHANGED <<input, frequency, numTransactions, minSupport, numWorkers,
                   capToWorker, capFromWorker, pc,
                   tree, minCount, masterPc, tasks, outstandingJobs, toWorker,
                   toWorkerClosed, fromWorker, wtask, outputClosed, result>>

WorkerToMaster(w) ==
    /\ Running
    /\ wpc[w] = "toMaster"
    /\ Len(fromWorker) < capFromWorker
    /\ \E r \in replies(wtask[w], minCount) : fromWorker' = Append(fromWorker, r)
    /\ wtask' = [wtask EXCEPT ![w] = Null]
    /\ wpc' = [wpc EXCEPT ![w] = "receive"]
    /\ UNCHANGED rvars
    /\ UNCHANGED <<sent, pushed>>
    /\ UNCHANGED <<input, frequency, numTransactions, minSupport, numWorkers,
                   capToWorker, capFromWorker, pc,
                   tree, minCount, masterPc, tasks, outstandingJobs, toWorker,
                   toWorkerClosed, itemsets, outputClosed, result>>

(***************************************************************************)
(* parallelFpGrowth after master returned                                  *)
(***************************************************************************)
\* as CloseOutput, output closed without waiting for master to return
CloseOutput_BeforeMaster ==
    /\ pc = "mining"
    /\ masterPc \in {"loop", "done"}
    /\ outputClosed' = TRUE
    /\ pc' = "closed"
    /\ UNCHANGED rvars
    /\ UNCHANGED <<sent, pushed>>
    /\ UNCHANGED <<input, frequency, numTransactions, minSupport, numWorkers,
                   capToWorker, capFromWorker,
                   tree, minCount, masterPc, tasks, outstandingJobs, toWorker,
                   toWorkerClosed, fromWorker, wpc, wtask, itemsets, result>>

CloseOutput ==
    /\ pc = "mining"
    /\ masterPc = "done"
    /\ outputClosed' = TRUE
    /\ pc' = "closed"
    /\ UNCHANGED rvars
    /\ UNCHANGED <<sent, pushed>>
    /\ UNCHANGED <<input, frequency, numTransactions, minSupport, numWorkers,
                   capToWorker, capFromWorker,
                   tree, minCount, masterPc, tasks, outstandingJobs, toWorker,
                   toWorkerClosed, fromWorker, wpc, wtask, itemsets, result>>

\* the collector leaves its loop and hands its list over; main returns it
Return ==
    /\ pc = "closed"
    /\ result' = itemsets
    /\ pc' = "returned"
    /\ UNCHANGED rvars
    /\ UNCHANGED <<sent, pushed>>
    /\ UNCHANGED <<input, frequency, numTransactions, minSupport, numWorkers,
                   capToWorker, capFromWorker,
                   tree, minCount, masterPc, tasks, outstandingJobs, toWorker,
                   toWorkerClosed, fromWorker, wpc, wtask, itemsets, outputClosed>>

(***************************************************************************)
(* A channel of capacity 0 hands a value over when sender and receiver     *)
(* meet.  parallelFpGrowth makes its channels with capacity ChanCap; these *)
(* two steps are what the same code does on unbuffered channels.           *)
(***************************************************************************)
MasterSendDirect(w) ==
    /\ MasterAtSelect
    /\ capToWorker = 0
    /\ wpc[w] = "receive"
    /\ wtask' = [wtask EXCEPT ![w] = nextWorkerTask]
    /\ wpc' = [wpc EXCEPT ![w] = "output"]
    /\ outstandingJobs' = outstandingJobs + 1
    /\ tasks' = popItem(tasks)
    /\ sent' = sent (+) SetToBag({taskKey(nextWorkerTask)})
    /\ pushed' = pushed
    /\ UNCHANGED rvars
    /\ UNCHANGED <<input, frequency, numTransactions, minSupport, numWorkers,
                   capToWorker, capFromWorker, pc,
                   tree, minCount, masterPc, toWorker, toWorkerClosed, fromWorker,
                   itemsets, outputClosed, result>>

WorkerToMasterDirect(w) ==
    /\ MasterCanReceive
    /\ capFromWorker = 0
    /\ wpc[w] = "toMaster"
    /\ \E r \in replies(wtask[w], minCount) :
          /\ tasks' = pushTask(tasks, r)
          /\ pushed' = pushed (+) taskItems(r.itemset, r.items)
    /\ outstandingJobs' = outstandingJobs - 1
    /\ wtask' = [wtask EXCEPT ![w] = Null]
    /\ wpc' = [wpc EXCEPT ![w] = "receive"]
    /\ sent' = sent
    /\ UNCHANGED rvars
    /\ UNCHANGED <<input, frequency, numTransactions, minSupport, numWorkers,
                   capToWorker, capFromWorker, pc,
                   tree, minCount, masterPc, toWorker, toWorkerClosed, fromWorker,
                   itemsets, outputClosed, result>>

\* the steps of the goroutines once main has started them
Step ==
    \/ MasterInit
    \/ MasterPanic
    \/ MasterSend
    \/ MasterReceive
    \/ MasterClose
    \/ \E w \in Workers : WorkerReceive(w)
    \/ \E w \in Workers : WorkerExit(w)
    \/ \E w \in Workers : WorkerOutput(w)
    \/ \E w \in Workers : WorkerToMaster(w)
    \/ CloseOutput
    \/ Return

Next == Start \/ Step

Spec == Init /\ [][Next]_vars

(***************************************************************************)
(* The miner on channels of every capacity 0..MaxCap, under fair           *)
(* scheduling: while some goroutine can step, one does.  The inputs are    *)
(* those of at most MaxCapTrans lines, none repeating an item.             *)
(***************************************************************************)
StartCap ==
    /\ pc = "start"
    /\ \E lines \in {in \in Inputs : Len(in) <= MaxCapTrans /\ NoRepeat(in)},
          support \in MinSupports, workers \in 1..MaxWorkers,
          capTo \in 0..MaxCap, capFrom \in 0..MaxCap :
          main(lines, support, workers, capTo, capFrom)

StepCap ==
    \/ Step
    \/ \E w \in Workers : MasterSendDirect(w)
    \/ \E w \in Workers : WorkerToMasterDirect(w)

NextCap == StartCap \/ StepCap

SpecCap == Init /\ [][NextCap]_vars /\ WF_vars(StepCap)

(***************************************************************************)
(* Arguments.  A float64 threshold is NaN or the number num/SupportSteps.  *)
(* Comparisons are those of float64: every ordered comparison with NaN is  *)
(* false and NaN differs from every value.                                 *)
(***************************************************************************)
NaN == [nan |-> TRUE, num |-> 0]

Float(n) == [nan |-> FALSE, num |-> n]

Floats == {NaN} \cup {Float(n) : n \in (0 - 1)..(SupportSteps + 1)}

fLess(x, y) == ~x.nan /\ ~y.nan /\ x.num < y.num

fGreater(x, y) == fLess(y, x)

fNotEqual(x, y) == x.nan \/ y.nan \/ x.num # y.num

Zero == Float(0)

One == Float(SupportSteps)

ErrMinSupportOutOfRange == "MinSupport value is out of range [0,1.0]."

ErrMinConfidenceOutOfRange == "MinConfidence value is out of range [0,1.0]."

ErrMinLiftOutOfRange == "MinLift is out of range [1.0,inf]."

Validate(a) ==
    IF fLess(a.MinSupport, Zero) \/ fGreater(a.MinSupport, One)
        THEN ErrMinSupportOutOfRange
    ELSE IF fLess(a.MinConfidence, Zero) \/ fGreater(a.MinConfidence, One)
        THEN ErrMinConfidenceOutOfRange
    ELSE IF fNotEqual(a.MinLift, Zero) /\ fLess(a.MinLift, One)
        THEN ErrMinLiftOutOfRange
    ELSE Nil

ArgumentSets ==
    [MinSupport : Floats, MinConfidence : Floats, MinLift : Floats,
     ItemsetsPath : {"", "itemsets"}]

(***************************************************************************)
(* MineAssociationRules.  Opening, scanning, creating and writing a file   *)
(* may each fail; the outcome is an input of the step.                     *)
(***************************************************************************)
ErrOpen == "open failed"

ErrScan == "scan failed"

ErrCreate == "create failed"

ErrWrite == "write failed"

ReadOutcomes == {Nil, ErrOpen, ErrScan}

WriteOutcomes == {Nil, ErrCreate, ErrWrite}

RunInputs == {in \in Inputs : Len(in) <= MaxRunTrans /\ NoRepeat(in)}

\* as invalid, the error dropped
invalid_Never(err) == FALSE

\* if err := args.Validate(); err != nil { return err }
invalid(err) == err # Nil

\* as failed, the error dropped
failed_Never(err) == FALSE

\* if err != nil { return err }
failed(err) == err # Nil

\* what countItems returns with an error
countedNothing == [frequency |-> [i \in Items |-> 0], numTransactions |-> 0]

\* int(math.Ceil(NaN)) is whatever the platform makes of it; from the count
\* of lines plus one on, every minCount leaves the tree empty
runMinCounts(support, n) ==
    IF support.nan THEN 1..(n + 1)
    ELSE {computeMinCount(support.num, n)}

\* the count of the itemset with the items S, 0 when there is none
supportOf(S, iwcs) ==
    LET hits == {e \in BagToSet(iwcs) : Range(e.itemset) = S}
    IN  IF hits = {} THEN 0 ELSE (CHOOSE e \in hits : TRUE).count

\* confidence = sI/sA; lift = confidence / (sC/n); thresholds are k/SupportSteps
confidenceBelow(sI, sA, minConfidence) ==
    ~minConfidence.nan /\ sI * SupportSteps < minConfidence.num * sA

liftBelow(sI, sA, sC, n, minLift) ==
    ~minLift.nan /\ sI * n * SupportSteps < minLift.num * sA * sC

generateRules(iwcs, n, minConfidence, minLift) ==
    {[antecedent |-> A, consequent |-> Range(e.itemset) \ A, count |-> e.count] :
        <<e, A>> \in
            {<<e, A>> \in BagToSet(iwcs) \X SUBSET Items :
                /\ Len(e.itemset) >= 2
                /\ A # {} /\ A \subseteq Range(e.itemset) /\ A # Range(e.itemset)
                /\ ~confidenceBelow(e.count, supportOf(A, iwcs), minConfidence)
                /\ ~(/\ fGreater(minLift, Zero)
                     /\ liftBelow(e.count, supportOf(A, iwcs),
                                  supportOf(Range(e.itemset) \ A, iwcs), n, minLift))}}

\* the state an output file is left in by a write that ended with err
fileAfter(err) ==
    IF err = Nil THEN "complete" ELSE IF err = ErrCreate THEN "absent" ELSE "partial"

RunValidate ==
    /\ rpc = "entry"
    /\ \E a \in ArgumentSets, lines \in RunInputs :
          /\ args' = a
          /\ rinput' = lines
          /\ IF invalid(Validate(a))
                THEN rpc' = "returned" /\ ret' = Validate(a)
                ELSE rpc' = "countItems" /\ ret' = ret
    /\ UNCHANGED mvars
    /\ UNCHANGED <<io, counted, itemsWithCount, rules, files, readErr, writeErr>>

RunCountItems ==
    /\ rpc = "countItems"
    /\ io' = Append(io, "open input")
    /\ \E err \in ReadOutcomes :
          /\ counted' = IF err = Nil THEN countItems(rinput) ELSE countedNothing
          /\ readErr' = IF err = Nil THEN readErr ELSE [pass |-> 1, err |-> err]
          /\ IF failed(err)
                THEN rpc' = "returned" /\ ret' = err
                ELSE rpc' = "generate" /\ ret' = ret
    /\ UNCHANGED mvars
    /\ UNCHANGED <<args, rinput, itemsWithCount, rules, files, writeErr>>

RunGenerate ==
    /\ rpc = "generate"
    /\ io' = Append(io, "open input")
    /\ \E err \in ReadOutcomes :
          /\ IF err = Nil
                THEN \E mc \in runMinCounts(args.MinSupport, counted.numTransactions) :
                        itemsWithCount' =
                            fpGrowth(buildTree(rinput, counted.frequency, mc), <<>>, mc)
                ELSE itemsWithCount' = EmptyBag
          /\ readErr' = IF err = Nil THEN readErr ELSE [pass |-> 2, err |-> err]
          /\ IF failed(err)
                THEN rpc' = "returned" /\ ret' = err
                ELSE rpc' = "writeItemsets" /\ ret' = ret
    /\ UNCHANGED mvars
    /\ UNCHANGED <<args, rinput, counted, rules, files, writeErr>>

\* the error writeItemsets returns is not looked at
RunWriteItemsets ==
    /\ rpc = "writeItemsets"
    /\ IF Len(args.ItemsetsPath) > 0
          THEN /\ io' = Append(io, "create itemsets")
               /\ \E err \in WriteOutcomes :
                     /\ files' = [files EXCEPT !.itemsets = fileAfter(err)]
                     /\ writeErr' = err
          ELSE UNCHANGED <<io, files, writeErr>>
    /\ rpc' = "rules"
    /\ UNCHANGED mvars
    /\ UNCHANGED <<args, rinput, ret, counted, itemsWithCount, rules, readErr>>

RunGenerateRules ==
    /\ rpc = "rules"
    /\ rules' = generateRules(itemsWithCount, counted.numTransactions,
                              args.MinConfidence, args.MinLift)
    /\ rpc' = "writeRules"
    /\ UNCHANGED mvars
    /\ UNCHANGED <<args, rinput, ret, io, counted, itemsWithCount, files, readErr,
                   writeErr>>

\* the error writeRules returns is not looked at; the call returns nil
RunWriteRules ==
    /\ rpc = "writeRules"
    /\ io' = Append(io, "create rules")
    /\ \E err \in WriteOutcomes :
          /\ files' = [files EXCEPT !.rules = fileAfter(err)]
          /\ writeErr' = IF writeErr = Nil THEN err ELSE writeErr
    /\ ret' = Nil
    /\ rpc' = "returned"
    /\ UNCHANGED mvars
    /\ UNCHANGED <<args, rinput, counted, itemsWithCount, rules, readErr>>

NextRun ==
    \/ RunValidate
    \/ RunCountItems
    \/ RunGenerate
    \/ RunWriteItemsets
    \/ RunGenerateRules
    \/ RunWriteRules

SpecRun == Init /\ [][NextRun]_vars

(***************************************************************************)
(* Rule generation with pruning.  An antecedent is tried only when no      *)
(* antecedent of the same itemset that contains it failed the confidence   *)
(* filter.                                                                 *)
(***************************************************************************)
\* the non-empty proper subsets of the items of an itemset
ProperAntecedents(e) ==
    {A \in SUBSET Range(e.itemset) : A # {} /\ A # Range(e.itemset)}

\* the rule A => I \ A of the itemset e passes the confidence filter
confident(e, A, iwcs, minConfidence) ==
    ~confidenceBelow(e.count, supportOf(A, iwcs), minConfidence)

\* no antecedent of e that contains A has failed
visited(e, A, iwcs, minConfidence) ==
    \A B \in ProperAntecedents(e) :
        (A \subseteq B /\ A # B) => confident(e, B, iwcs, minConfidence)

generateRulesPruned(iwcs, n, minConfidence, minLift) ==
    {[antecedent |-> A, consequent |-> Range(e.itemset) \ A, count |-> e.count] :
        <<e, A>> \in
            {<<e, A>> \in BagToSet(iwcs) \X SUBSET Items :
                /\ Len(e.itemset) >= 2
                /\ A \in ProperAntecedents(e)
                /\ visited(e, A, iwcs, minConfidence)
                /\ confident(e, A, iwcs, minConfidence)
                /\ ~(/\ fGreater(minLift, Zero)
                     /\ liftBelow(e.count, supportOf(A, iwcs),
                                  supportOf(Range(e.itemset) \ A, iwcs), n, minLift))}}

(***************************************************************************)
(* MineAssociationRules on valid arguments and on inputs of at most        *)
(* MaxRuleTrans lines of at most MaxRuleTxLen items, a line repeating at   *)
(* most one of its items, and that one once.                               *)
(***************************************************************************)
RuleTransactions ==
    {t \in UNION {[1..n -> Items] : n \in 0..MaxRuleTxLen} :
        /\ IsNonDecreasing(t)
        /\ Len(t) <= Cardinality(Range(t)) + 1}

RuleInputs ==
    {in \in UNION {[1..n -> RuleTransactions] : n \in 0..MaxRuleTrans} :
        \A k \in 1..(Len(in) - 1) : LineCode(in[k]) <= LineCode(in[k + 1])}

RuleArguments ==
    [MinSupport : {Zero, One}, MinConfidence : {Zero, Float(1), One},
     MinLift : {Zero, One}, ItemsetsPath : {"", "itemsets"}]

StartRules ==
    /\ rpc = "entry"
    /\ \E a \in RuleArguments, lines \in RuleInputs :
          /\ args' = a
          /\ rinput' = lines
          /\ IF invalid(Validate(a))
                THEN rpc' = "returned" /\ ret' = Validate(a)
                ELSE rpc' = "countItems" /\ ret' = ret
    /\ UNCHANGED mvars
    /\ UNCHANGED <<io, counted, itemsWithCount, rules, files, readErr, writeErr>>

NextRules ==
    \/ StartRules
    \/ RunCountItems
    \/ RunGenerate
    \/ RunWriteItemsets
    \/ RunGenerateRules
    \/ RunWriteRules

SpecRules == Init /\ [][NextRules]_vars

(***************************************************************************)
(* Properties                                                              *)
(***************************************************************************)
\* number of lines of the input that contain every item of S
Support(S, lines) == Cardinality({k \in DOMAIN lines : S \subseteq Range(lines[k])})

Emitted == BagToSet(itemsets)

TreeBuilt == pc # "start"

HasFrequentItem == TreeBuilt /\ frequentItemsInTree(tree, minCount) # {<<>>}

NoFrequentItem == TreeBuilt /\ frequentItemsInTree(tree, minCount) = {<<>>}

Drained ==
    /\ masterPc = "done"
    /\ tasks = <<>>
    /\ outstandingJobs = 0
    /\ toWorkerClosed
    /\ \A w \in Workers : wpc[w] = "exited"

\* C1: when the initial tree has a frequent item then, for every capacity of
\* toWorker and fromWorker, under fair scheduling the master reaches tasks
\* empty and outstandingJobs = 0 and closes toWorker, every worker leaves its
\* loop and main returns.  No state on the way is a deadlock: a run that
\* stopped in one would never get there.
C1_NoDeadlockAndDrain == HasFrequentItem ~> (Drained /\ pc = "returned")

\* both channels are full, the master still has work to hand out and every
\* worker waits to send its reply
C1_Witness ==
    /\ HasFrequentItem
    /\ capToWorker > 0 /\ Len(toWorker) = capToWorker
    /\ capFromWorker > 0 /\ Len(fromWorker) = capFromWorker
    /\ Len(tasks) > 0
    /\ \A w \in Workers : wpc[w] = "toMaster"

\* C2: every itemset whose support is at least minCount is among the itemsets
\* returned (stated for the inputs whose lines repeat no item, the claim's
\* example among them).
C2_Complete ==
    (pc = "returned" /\ NoRepeat(input)) =>
        \A S \in (SUBSET Items) \ {{}} :
            Support(S, input) >= minCount =>
                \E e \in BagToSet(result) : Range(e.itemset) = S

\* C3: every pair a worker emits on output has count >= minCount.
C3_EmittedCountAtLeastMinCount == \A e \in Emitted : e.count >= minCount

\* two workers are at work and an itemset of two items or more was emitted
C3_Witness ==
    /\ numWorkers > 1
    /\ \E e \in Emitted : Len(e.itemset) > 1 /\ e.count >= minCount

\* C4: what parallelFpGrowth returns is, as a multiset, a function of the
\* initial tree and minCount alone (the multiset the sequential miner yields
\* for them), whatever the number of workers, the interleaving and the order
\* in which frequentItemsInTree lists items.
C4_ResultIsFunctionOfTree ==
    pc = "returned" => result = fpGrowth(tree, <<>>, minCount)

\* two workers returned at least three itemsets
C4_Witness ==
    /\ pc = "returned"
    /\ numWorkers > 1
    /\ BagCardinality(result) >= 3

\* C5: for an input whose lines do not repeat an item, the count of every
\* emitted pair is the number of lines that contain every item of its
\* itemset.
C5_CountIsSupport ==
    NoRepeat(input) =>
        \A e \in Emitted : e.count = Support(Range(e.itemset), input)

\* an itemset of two items was emitted for an input without repeated items
C5_Witness ==
    /\ NoRepeat(input)
    /\ \E e \in Emitted : Len(e.itemset) = 2 /\ e.count < Len(input)

\* C6: on an initial tree without a frequent item (the empty input among
\* them) the master dispatches no task and does not fail.
C6_NoFrequentItemNoFailure ==
    NoFrequentItem =>
        /\ masterPc # "panic"
        /\ outstandingJobs = 0
        /\ toWorker = <<>>


NoOutputFile == files = [itemsets |-> "absent", rules |-> "absent"]

\* C7: when writeItemsets or writeRules ends with an error, that error is
\* what MineAssociationRules returns.
C7_WriteErrorReturned == (rpc = "returned" /\ writeErr # Nil) => ret = writeErr

\* C8: when Validate fails, MineAssociationRules returns that error and has
\* done no I/O: the input was not opened, no pass ran and no output file was
\* created.
C8_ValidationBeforeIO ==
    (rpc # "entry" /\ Validate(args) # Nil) =>
        /\ rpc = "returned"
        /\ ret = Validate(args)
        /\ io = <<>>
        /\ NoOutputFile
        /\ counted = Null /\ itemsWithCount = Null /\ rules = Null

\* a call with a support in range and a confidence out of range has returned
C8_Witness ==
    /\ rpc = "returned"
    /\ ret = ErrMinConfidenceOutOfRange
    /\ args.MinSupport = One

InRange(x) == ~x.nan /\ 0 <= x.num /\ x.num <= SupportSteps

\* C9: Validate returns ErrMinSupportOutOfRange iff MinSupport is outside
\* [0,1]; otherwise ErrMinConfidenceOutOfRange iff MinConfidence is outside
\* [0,1]; otherwise ErrMinLiftOutOfRange iff MinLift is not 0 and below 1;
\* otherwise nil.
C9_ValidateTable ==
    args # Null =>
        Validate(args) =
            IF ~InRange(args.MinSupport) THEN ErrMinSupportOutOfRange
            ELSE IF ~InRange(args.MinConfidence) THEN ErrMinConfidenceOutOfRange
            ELSE IF fNotEqual(args.MinLift, Zero) /\ fLess(args.MinLift, One)
                THEN ErrMinLiftOutOfRange
            ELSE Nil

\* the table of C9 on the arguments none of whose thresholds is NaN
ValidateTableOnNumbers ==
    (args # Null /\ ~args.MinSupport.nan /\ ~args.MinConfidence.nan) =>
        Validate(args) =
            IF ~InRange(args.MinSupport) THEN ErrMinSupportOutOfRange
            ELSE IF ~InRange(args.MinConfidence) THEN ErrMinConfidenceOutOfRange
            ELSE IF args.MinLift.num # 0 /\ args.MinLift.num < SupportSteps
                    /\ ~args.MinLift.nan
                THEN ErrMinLiftOutOfRange
            ELSE Nil

\* C10: when opening or scanning the input fails in pass 1 or in pass 2,
\* MineAssociationRules returns that error and nothing runs after the failed
\* pass: no rules are generated, no output file is created, and after a
\* failure in pass 1 the input is not opened again and nothing is mined.
C10_ReadErrorReturned ==
    (readErr.err # Nil) =>
        (/\ rpc = "returned"
         /\ ret = readErr.err
         /\ rules = Null
         /\ NoOutputFile
         /\ \A k \in DOMAIN io : io[k] = "open input"
         /\ (readErr.pass = 1) => (Len(io) = 1 /\ itemsWithCount = Null))

\* pass 2 failed while scanning
C10_Witness ==
    /\ readErr = [pass |-> 2, err |-> ErrScan]
    /\ Len(io) = 2
    /\ rpc = "returned"
    /\ ret = ErrScan

(***************************************************************************)
(* Properties of the scheduling                                            *)
(***************************************************************************)
\* the workers that hold a workerTask
Busy == {w \in Workers : wpc[w] \in {"output", "toMaster"}}

\* C11: output is closed only after master has terminated and every worker
\* has left its loop (stated for the inputs whose lines repeat no item).
C11_OutputClosedAfterWorkersExit ==
    (outputClosed /\ NoRepeat(input)) => (masterPc = "done" /\ \A w \in Workers : wpc[w] = "exited")

\* C11 as amended: output is closed only after master has terminated and
\* every worker has finished the tasks it received: no task is left in
\* either channel and each worker waits at its receive or has left its loop.
C11_OutputClosedAfterWork ==
    outputClosed =>
        /\ masterPc = "done"
        /\ toWorkerClosed
        /\ toWorker = <<>> /\ fromWorker = <<>>
        /\ \A w \in Workers : wpc[w] \in {"receive", "exited"}

\* output was closed after itemsets went through it, a worker still at its
\* receive
C11_Witness ==
    /\ outputClosed
    /\ NoRepeat(input)
    /\ itemsets # EmptyBag
    /\ \E w \in Workers : wpc[w] = "receive"

\* C12: each conditional tree sent back to the master is lent to exactly one
\* worker, and no two workers hold workerTasks of the same tree at the same
\* time.  A conditional tree is named by the itemset it was made for, which is
\* not empty.  Stated for the inputs whose lines repeat no item.
C12_OneWorkerPerTree ==
    NoRepeat(input) =>
    /\ \A w1, w2 \in Busy :
          (w1 # w2 /\ wtask[w1].itemset # <<>>) =>
              wtask[w1].itemset # wtask[w2].itemset
    /\ \A k1, k2 \in BagToSet(sent) :
          (k1 # k2 /\ k1.itemset # <<>>) => k1.itemset # k2.itemset

\* C12 as amended: a tree is lent once for each item of its masterTask, each
\* time to one worker: no workerTask (tree, item) is sent twice and no two
\* workers hold the same workerTask at the same time.  Two workers may hold
\* workerTasks of the same tree, for different items.
C12_OneWorkerPerTask ==
    /\ \A w1, w2 \in Busy :
          w1 # w2 => taskKey(wtask[w1]) # taskKey(wtask[w2])
    /\ \A k \in BagToSet(sent) : sent[k] = 1
    /\ \A w \in Busy : taskKey(wtask[w]) \in BagToSet(sent)

\* two workers hold workerTasks of one conditional tree, for different items
C12_Witness ==
    \E w1, w2 \in Busy :
        /\ NoRepeat(input)
        /\ w1 # w2
        /\ wtask[w1].itemset # <<>>
        /\ wtask[w1].itemset = wtask[w2].itemset
        /\ wtask[w1].tree = wtask[w2].tree
        /\ wtask[w1].item # wtask[w2].item

\* C13: after pass 1, frequency[i] is the number of lines that contain i, for
\* every item and every input, and numTransactions is the number of lines.
C13_FrequencyIsTransactionCount ==
    TreeBuilt =>
        /\ numTransactions = Len(input)
        /\ \A i \in Items : frequency[i] = Support({i}, input)

\* the statement of C13 on the inputs none of whose lines repeats an item
FrequencyWithoutRepeats ==
    (TreeBuilt /\ NoRepeat(input)) =>
        /\ numTransactions = Len(input)
        /\ \A i \in Items : frequency[i] = Support({i}, input)

\* C14: every masterTask on the stack has a non-empty items list, the
\* initial task included.
C14_TasksHaveItems == \A k \in DOMAIN tasks : Len(tasks[k].items) > 0

RECURSIVE remaining(_)
\* the items still to be sent of the tasks of a stack, as a bag
remaining(stack) ==
    IF stack = <<>> THEN EmptyBag
    ELSE taskItems(Head(stack).itemset, Head(stack).items) (+) remaining(Tail(stack))

C15_Step ==
    /\ (pushed = sent (+) remaining(tasks))'
    /\ \A k \in BagToSet(sent') : sent'[k] = 1
    /\ (sent' # sent) =>
          /\ MasterAtSelect
          /\ sent' = sent (+) SetToBag({taskKey(nextWorkerTask)})
          /\ (toWorker' # toWorker) => toWorker' = Append(toWorker, nextWorkerTask)
          /\ remaining(tasks) = remaining(tasks') (+) SetToBag({taskKey(nextWorkerTask)})
          /\ Len(tasks') = IF Len(lastTask.items) = 1 THEN Len(tasks) - 1 ELSE Len(tasks)
          /\ outstandingJobs' = outstandingJobs + 1
    /\ (sent' = sent /\ masterPc = "loop" /\ masterPc' = "loop") =>
          /\ Len(tasks') >= Len(tasks)
          /\ SubSeq(tasks', 1, Len(tasks)) = tasks
    /\ (masterPc' = "done") => (sent' = pushed' /\ tasks' = <<>>)

\* C15: the master dispatches LIFO and exactly once.  A send hands over the
\* workerTask of the first item of the top task and removes that item alone
\* (the task with it when it was the last); a step of the master that sends
\* nothing leaves every task on the stack as it was; the items pushed are at
\* all times the items sent, each once, and the items still on the stack, so
\* that when master terminates each item of each masterTask was sent once.
C15_LifoExactlyOnce == [][C15_Step]_vars

\* a task pushed after a receive lies on top of a task with items left, and
\* one of its items has been sent
C15_Witness ==
    /\ Len(tasks) >= 2
    /\ \E k \in BagToSet(sent) : k.itemset = lastTask.itemset /\ k.itemset # <<>>
    /\ outstandingJobs > 0

\* C16: a worker sends on output before it replies to the master; when the
\* master has terminated every itemset has reached the collector, no worker
\* is at its send on output once output is closed, and the list returned has
\* one entry for each workerTask sent.
C16_OutputBeforeReply ==
    /\ \A w \in Workers : wpc[w] = "toMaster" => emitted(wtask[w]) \in Emitted
    /\ BagCardinality(itemsets) + Cardinality({w \in Workers : wpc[w] = "output"})
           + Len(toWorker) = BagCardinality(sent)
    /\ masterPc = "done" =>
          /\ BagCardinality(itemsets) = BagCardinality(sent)
          /\ Busy = {}
    /\ outputClosed => \A w \in Workers : wpc[w] # "output"
    /\ pc = "returned" => BagCardinality(result) = BagCardinality(sent)

\* main returned a list of three entries or more, made by two workers
C16_Witness ==
    /\ pc = "returned"
    /\ numWorkers > 1
    /\ BagCardinality(sent) >= 3
    /\ BagCardinality(result) = BagCardinality(sent)

\* the workerTasks sent whose masterTask the master has not received
InFlight == Len(toWorker) + Cardinality(Busy) + Len(fromWorker)

\* C17: outstandingJobs is the number of workerTasks sent whose masterTask
\* has not been received: those queued in toWorker, those held by workers
\* and the replies queued in fromWorker.  It is never negative, and while
\* the master waits on fromWorker alone a reply is still to come.
C17_OutstandingJobs ==
    /\ outstandingJobs = InFlight
    /\ outstandingJobs >= 0
    /\ MasterAtReceive => InFlight > 0

\* the master waits on fromWorker alone, two tasks with the workers
C17_Witness ==
    /\ MasterAtReceive
    /\ outstandingJobs >= 2
    /\ Cardinality(Busy) >= 1

IsStrictlyIncreasing(s) == \A k \in 1..(Len(s) - 1) : cmp(s[k], s[k + 1])

\* C18: no itemset is emitted twice, any two emitted pairs have different
\* sets of items, and every emitted itemset is strictly increasing in cmp.
C18_NoItemsetTwice ==
    /\ \A e \in Emitted : itemsets[e] = 1 /\ IsStrictlyIncreasing(e.itemset)
    /\ \A e1, e2 \in Emitted :
          e1 # e2 => Range(e1.itemset) # Range(e2.itemset)

\* the statement of C18 on the inputs none of whose lines repeats an item
NoItemsetTwiceWithoutRepeats ==
    NoRepeat(input) =>
        /\ \A e \in Emitted : itemsets[e] = 1 /\ IsStrictlyIncreasing(e.itemset)
        /\ \A e1, e2 \in Emitted :
              e1 # e2 => Range(e1.itemset) # Range(e2.itemset)

\* C19: the itemsets returned are downward closed: with an itemset, every
\* non-empty subset of it is returned too, with a count at least as large
\* and above 0, so that the support looked up for it is not 0.
C19_DownwardClosed ==
    pc = "returned" =>
        \A e \in BagToSet(result) :
            /\ e.count > 0
            /\ \A S \in (SUBSET Range(e.itemset)) \ {{}} :
                  /\ \E f \in BagToSet(result) :
                        Range(f.itemset) = S /\ f.count >= e.count
                  /\ supportOf(S, result) > 0

\* the statement of C19 on the inputs none of whose lines repeats an item
DownwardClosedWithoutRepeats ==
    (pc = "returned" /\ NoRepeat(input)) =>
        \A e \in BagToSet(result) :
            /\ e.count > 0
            /\ \A S \in (SUBSET Range(e.itemset)) \ {{}} :
                  /\ \E f \in BagToSet(result) :
                        Range(f.itemset) = S /\ f.count >= e.count
                  /\ supportOf(S, result) > 0

\* generateRules has returned
RulesGenerated ==
    \/ rpc = "writeRules"
    \/ rpc = "returned" /\ io # <<>> /\ Last(io) = "create rules"

\* C20: confidence pruning is sound.  For every itemset I mined and all
\* antecedents A' within A within I, when A fails the confidence filter A'
\* fails it too; so the rules generated with the sub-antecedents of a failed
\* antecedent skipped are the rules generated by filtering every antecedent.
C20_PruningSound ==
    RulesGenerated =>
        /\ \A e \in BagToSet(itemsWithCount) : \A A, B \in ProperAntecedents(e) :
              (/\ B \subseteq A /\ B # A
               /\ ~confident(e, A, itemsWithCount, args.MinConfidence))
                  => ~confident(e, B, itemsWithCount, args.MinConfidence)
        /\ rules = generateRulesPruned(itemsWithCount, counted.numTransactions,
                                       args.MinConfidence, args.MinLift)

\* the statement of C20 on the inputs none of whose lines repeats an item
PruningSoundWithoutRepeats ==
    (RulesGenerated /\ NoRepeat(rinput)) =>
        /\ \A e \in BagToSet(itemsWithCount) : \A A, B \in ProperAntecedents(e) :
              (/\ B \subseteq A /\ B # A
               /\ ~confident(e, A, itemsWithCount, args.MinConfidence))
                  => ~confident(e, B, itemsWithCount, args.MinConfidence)
        /\ rules = generateRulesPruned(itemsWithCount, counted.numTransactions,
                                       args.MinConfidence, args.MinLift)

\* an input without repeated items for which pruning skips an antecedent
PruningHappens ==
    /\ RulesGenerated
    /\ NoRepeat(rinput)
    /\ \E e \in BagToSet(itemsWithCount) : \E A, B \in ProperAntecedents(e) :
          /\ B \subseteq A /\ B # A
          /\ ~confident(e, A, itemsWithCount, args.MinConfidence)

====
